---- MODULE Spec2Model ----
(***************************************************************************)
(* A model of preprocess.py: dictionary construction and persistence, the  *)
(* binarization of a text file into an indexed dataset, and the            *)
(* aggregation of an alignment file into a best-alignment table.           *)
(*                                                                         *)
(* main() is in the source.  The Dictionary, the Tokenizer and the         *)
(* IndexedDatasetBuilder it imports from the fairseq package are modelled  *)
(* from their description in spec.md (sections 3, 4 and 6).                *)
(*                                                                         *)
(* A text line is modelled by the sequence of words the tokenizer splits   *)
(* it into; a text file is a sequence of lines.                            *)
(***************************************************************************)
EXTENDS Integers, Sequences, FiniteSets, TLC

VARIABLES
    pc,         \* position of main() / make_binary_dataset()
    args,       \* the parsed command line
    train,      \* the text files <trainpref>.<lang>, by <lang>
    destdir,    \* the files dict.<lang>.txt of args.destdir, by <lang>
    src_dict,   \* main's src_dict
    tgt_dict,   \* main's tgt_dict
    lang,       \* make_binary_dataset's lang
    dict,       \* make_binary_dataset's dict
    input_file, \* the text file make_binary_dataset binarizes
    nread,      \* lines of input_file that binarize has consumed
    fed,        \* the tensors that consumer() has been called with, in order
    ds,         \* the IndexedDatasetBuilder
    res,        \* the statistics binarize accumulates and returns
    index_file, \* the index artifact written by ds.finalize
    got,        \* the items read back through the reader
    align,      \* the alignment loop's position in its three files
    freq_map,   \* main's freq_map
    align_out   \* the lines written to alignment.<src>-<tgt>.txt

vars == <<pc, args, train, destdir, src_dict, tgt_dict, lang, dict, input_file,
          nread, fed, ds, res, index_file, got, align, freq_map, align_out>>

dictVars  == <<src_dict, tgt_dict, destdir>>
binVars   == <<lang, dict, input_file, nread, fed, ds, res, index_file, got>>
alignVars == <<align, freq_map, align_out>>

-----------------------------------------------------------------------------
(* Bounds of the model *)

MaxLines == 2       \* lines in a text file
MaxWords == 2       \* words in a line
MaxItems == 3       \* add_item calls in the builder's own specification
MaxLen == 2         \* elements of a tensor in the builder's own specification

\* The two sides of the parallel corpus
Langs == {"src", "tgt"}
Vocab == {"a", "b"}

\* All sequences over S of length at most n
SeqUpTo(S, n) == UNION {[1..k -> S] : k \in 0..n}

RECURSIVE SumSeq(_)
SumSeq(s) == IF s = <<>> THEN 0 ELSE Head(s) + SumSeq(Tail(s))

RECURSIVE Flatten(_)
Flatten(ss) == IF ss = <<>> THEN <<>> ELSE Head(ss) \o Flatten(Tail(ss))

\* An optional argument: <<>> when not given, <<value>> when given
Unset == <<>>
Given(v) == <<v>>

\* '{}'.format(lang): a language that was not passed is formatted as None
FormatLang(l) == IF l = Unset THEN "None" ELSE l[1]

\* args.source_lang / args.target_lang
LangArg(side) == IF side = "src" THEN args.source_lang ELSE args.target_lang

\* '{}.{}'.format(args.trainpref, lang), read
TrainFile(l) == train[FormatLang(l)]

\* A file written: the content replaces what the path held
WriteFile(dir, path, content) ==
    [p \in (DOMAIN dir) \cup {path} |-> IF p = path THEN content ELSE dir[p]]

-----------------------------------------------------------------------------
(* Dictionary (spec.md 3 and 4.1) *)

BosIndex == 0
PadIndex == 1
EosIndex == 2
UnkIndex == 3
NSpecial == 4

UnkWord == "<unk>"
ReservedSymbols == <<"<s>", "<pad>", "</s>", UnkWord>>

\* A dictionary is the ordered sequence of its symbols with their counts;
\* the symbol at position i of the sequence has index i - 1.
NewDictionary == [symbols |-> ReservedSymbols, count |-> <<0, 0, 0, 0>>]

DictLen(d) == Len(d.symbols)

HasSymbol(d, w) == \E i \in 1..Len(d.symbols) : d.symbols[i] = w

\* lookup(symbol): the index, or the unknown index when absent
Index(d, w) ==
    IF HasSymbol(d, w)
    THEN (CHOOSE i \in 1..Len(d.symbols) : d.symbols[i] = w) - 1
    ELSE UnkIndex

\* d[idx]: the symbol at an index
SymbolAt(d, idx) == IF idx < Len(d.symbols) THEN d.symbols[idx + 1] ELSE UnkWord

CountOf(d, w) == d.count[Index(d, w) + 1]

\* add(symbol): registers the symbol if new, increments its count
AddSymbol(d, w) ==
    IF HasSymbol(d, w)
    THEN [d EXCEPT !.count[Index(d, w) + 1] = @ + 1]
    ELSE [symbols |-> Append(d.symbols, w), count |-> Append(d.count, 1)]

RECURSIVE AddAll(_, _)
AddAll(d, ws) == IF ws = <<>> THEN d ELSE AddAll(AddSymbol(d, Head(ws)), Tail(ws))

\* build(filePath, tokenizer): add every token of every line
BuildDictionary(file) == AddAll(NewDictionary, Flatten(file))

\* The entries of d at positions lo..Len, as records, in order
RECURSIVE EntriesFrom(_, _)
EntriesFrom(d, lo) ==
    IF lo > Len(d.symbols) THEN <<>>
    ELSE <<[sym |-> d.symbols[lo], count |-> d.count[lo]]>> \o EntriesFrom(d, lo + 1)

RECURSIVE DropBelow(_, _)
DropBelow(es, T) ==
    IF es = <<>> THEN <<>>
    ELSE IF Head(es).count < T THEN DropBelow(Tail(es), T)
    ELSE <<Head(es)>> \o DropBelow(Tail(es), T)

\* e goes after every entry whose count is at least its own
RECURSIVE SortedInsert(_, _)
SortedInsert(e, s) ==
    IF s = <<>> THEN <<e>>
    ELSE IF Head(s).count >= e.count THEN <<Head(s)>> \o SortedInsert(e, Tail(s))
    ELSE <<e>> \o s

\* stable sort by count, descending
RECURSIVE SortByCount(_, _)
SortByCount(es, acc) ==
    IF es = <<>> THEN acc ELSE SortByCount(Tail(es), SortedInsert(Head(es), acc))

Truncate(es, K) == IF K >= 0 /\ K < Len(es) THEN SubSeq(es, 1, K) ELSE es

\* finalize(thresholdCount, maxSize)
Finalize(d, T, K) ==
    LET kept == Truncate(SortByCount(DropBelow(EntriesFrom(d, NSpecial + 1), T), <<>>), K)
    IN [symbols |-> SubSeq(d.symbols, 1, NSpecial) \o [i \in 1..Len(kept) |-> kept[i].sym],
        count   |-> SubSeq(d.count, 1, NSpecial) \o [i \in 1..Len(kept) |-> kept[i].count]]

-----------------------------------------------------------------------------
(* The persisted dictionary file (spec.md 4.1 load/save, 6): one line        *)
(* "<symbol> <count>" per retained symbol, reserved symbols not listed.      *)
(* A line of the file is the sequence of its symbol, a blank and the         *)
(* decimal digits of the count.                                              *)

DigitChars == <<"0", "1", "2", "3", "4", "5", "6", "7", "8", "9">>

IsDigit(c) == \E i \in 1..Len(DigitChars) : DigitChars[i] = c

DigitValue(c) == (CHOOSE i \in 1..Len(DigitChars) : DigitChars[i] = c) - 1

\* '{}'.format(count)
RECURSIVE FormatInt(_)
FormatInt(n) ==
    IF n < 10 THEN <<DigitChars[n + 1]>>
    ELSE FormatInt(n \div 10) \o <<DigitChars[(n % 10) + 1]>>

\* int(text)
RECURSIVE ParseIntAcc(_, _)
ParseIntAcc(cs, acc) ==
    IF cs = <<>> THEN acc ELSE ParseIntAcc(Tail(cs), 10 * acc + DigitValue(Head(cs)))

ParseInt(cs) == ParseIntAcc(cs, 0)

FormatLine(sym, count) == <<sym, " ">> \o FormatInt(count)

\* A line that parses: one symbol, one blank, at least one digit
WellFormedLine(line) ==
    /\ Len(line) >= 3
    /\ line[1] # " "
    /\ line[2] = " "
    /\ \A i \in 3..Len(line) : IsDigit(line[i])

\* save(filePath, thresholdCount, maxSize): finalize, then one line per
\* retained non-reserved symbol, in index order
SaveLines(d, T, K) ==
    LET f == Finalize(d, T, K)
    IN [i \in 1..(Len(f.symbols) - NSpecial) |->
            FormatLine(f.symbols[NSpecial + i], f.count[NSpecial + i])]

RECURSIVE LoadAcc(_, _)
LoadAcc(lines, d) ==
    IF lines = <<>> THEN [ok |-> TRUE, d |-> d]
    ELSE IF ~WellFormedLine(Head(lines)) THEN [ok |-> FALSE, d |-> d]
    ELSE IF HasSymbol(d, Head(lines)[1]) THEN [ok |-> FALSE, d |-> d]
    ELSE LoadAcc(Tail(lines),
                 [symbols |-> Append(d.symbols, Head(lines)[1]),
                  count   |-> Append(d.count, ParseInt(SubSeq(Head(lines), 3, Len(Head(lines)))))])

\* load(filePath): indices in file order after the reserved symbols; a
\* malformed line or a duplicate symbol is fatal
LoadDictionary(lines) == LoadAcc(lines, NewDictionary)

-----------------------------------------------------------------------------
(* IndexedDatasetBuilder and its reader (spec.md 3, 4.2 and 6): a data blob *)
(* of fixed-width little-endian integers, an in-memory offset table, and    *)
(* an index artifact written by finalize.                                   *)

ElementSize == 4
ByteRange == 256

RECURSIVE PowBytes(_)
PowBytes(k) == IF k = 0 THEN 1 ELSE ByteRange * PowBytes(k - 1)

\* The bytes of one element, least significant first; the bytes beyond the
\* element's width are not written
EncodeElement(v) ==
    [k \in 1..ElementSize |-> (v \div PowBytes(k - 1)) % ByteRange]

RECURSIVE EncodeTensor(_)
EncodeTensor(t) == IF t = <<>> THEN <<>> ELSE EncodeElement(Head(t)) \o EncodeTensor(Tail(t))

RECURSIVE DecodeElement(_, _)
DecodeElement(bytes, k) ==
    IF bytes = <<>> THEN 0 ELSE Head(bytes) * PowBytes(k) + DecodeElement(Tail(bytes), k + 1)

RECURSIVE DecodeBytes(_, _)
DecodeBytes(bytes, width) ==
    IF Len(bytes) < width THEN <<>>
    ELSE <<DecodeElement(SubSeq(bytes, 1, width), 0)>>
         \o DecodeBytes(SubSeq(bytes, width + 1, Len(bytes)), width)

\* IndexedDatasetBuilder(path)
EmptyBuilder == [out_file |-> <<>>, data_offsets |-> <<0>>, sizes |-> <<>>, sealed |-> FALSE]

\* addItem(sequence): the bytes go to the data stream, the running offset
\* advances by the number of elements written
AddItem(b, t) ==
    LET bytes == EncodeTensor(t)
    IN [b EXCEPT !.out_file = @ \o bytes,
                 !.data_offsets = Append(@, @[Len(@)] + (Len(bytes) \div ElementSize)),
                 !.sizes = Append(@, Len(t))]

\* finalize(indexPath): the index artifact
IndexOf(b) ==
    [tag |-> "IDX", dtype |-> "int32", element_size |-> ElementSize,
     nitems |-> Len(b.data_offsets) - 1, nelements |-> SumSeq(b.sizes),
     offsets |-> b.data_offsets, sizes |-> b.sizes]

\* reader.get(i), 0 <= i < nitems
ReaderGet(idx, data, i) ==
    DecodeBytes(SubSeq(data, idx.offsets[i + 1] * idx.element_size + 1,
                       idx.offsets[i + 2] * idx.element_size),
                idx.element_size)

-----------------------------------------------------------------------------
(* main(), lines 52-64: one dictionary per language, built from the         *)
(* training file or reused, then saved under the threshold and size cap.    *)

\* 'dict.{}.txt'.format(lang): one file per language name, so the two sides
\* share a file when their languages are the same
DictPath(l) == FormatLang(l)

\* A copy-and-paste slip: the target's cap passed for both languages
NwordsArgOfTarget(l) == args.nwordstgt

ThresholdArg(l) == IF l = "src" THEN args.thresholdsrc ELSE args.thresholdtgt
NwordsArg(l) == IF l = "src" THEN args.nwordssrc ELSE args.nwordstgt
ReuseArg(l) == IF l = "src" THEN args.srcdict ELSE args.tgtdict

\* lines 52-55 and 59-62
ObtainDictionary(l) ==
    IF ReuseArg(l) # Unset
    THEN LoadDictionary(ReuseArg(l)[1])
    ELSE [ok |-> TRUE, d |-> BuildDictionary(TrainFile(LangArg(l)))]

\* lines 56-57 and 63-64: the file the save call leaves in destdir
SavedFile(d, l) == SaveLines(d, ThresholdArg(l), NwordsArg(l))

ObtainSrc ==
    /\ pc = "start"
    /\ LET r == ObtainDictionary("src")
       IN /\ src_dict' = r.d
          /\ pc' = IF r.ok THEN "src_dict" ELSE "error"
    /\ UNCHANGED <<args, train, tgt_dict, destdir, binVars, alignVars>>

SaveSrc ==
    /\ pc = "src_dict"
    /\ destdir' = WriteFile(destdir, DictPath(args.source_lang), SavedFile(src_dict, "src"))
    /\ src_dict' = Finalize(src_dict, ThresholdArg("src"), NwordsArg("src"))
    /\ pc' = "src_saved"
    /\ UNCHANGED <<args, train, tgt_dict, binVars, alignVars>>

ObtainTgt ==
    /\ pc = "src_saved"
    /\ LET r == ObtainDictionary("tgt")
       IN /\ tgt_dict' = r.d
          /\ pc' = IF r.ok THEN "tgt_dict" ELSE "error"
    /\ UNCHANGED <<args, train, src_dict, destdir, binVars, alignVars>>

SaveTgt ==
    /\ pc = "tgt_dict"
    /\ destdir' = WriteFile(destdir, DictPath(args.target_lang), SavedFile(tgt_dict, "tgt"))
    /\ tgt_dict' = Finalize(tgt_dict, ThresholdArg("tgt"), NwordsArg("tgt"))
    /\ pc' = "saved"
    /\ UNCHANGED <<args, train, src_dict, binVars, alignVars>>

\* A path slip: the source language's file whatever the language
ReloadPathOfSource(l) == DictPath(args.source_lang)

\* line 67: make_binary_dataset reloads the dictionary of its language
ReloadPath(l) == DictPath(l)

LoadForDataset(l) ==
    /\ pc = "saved"
    /\ args.output_format = "binary"
    /\ lang' = l
    /\ dict' = LoadDictionary(destdir[ReloadPath(l)]).d
    /\ pc' = "mbd_loaded"
    /\ UNCHANGED <<args, train, dictVars, input_file, nread, fed, ds, res,
                   index_file, got, alignVars>>

\* lines 110-111: the alignment step reloads both dictionaries
LoadForAlign ==
    /\ pc = "saved"
    /\ args.alignfile # Unset
    /\ src_dict' = LoadDictionary(destdir[ReloadPath(args.source_lang)]).d
    /\ tgt_dict' = LoadDictionary(destdir[ReloadPath(args.target_lang)]).d
    /\ freq_map' = <<>>
    /\ pc' = "align_loaded"
    /\ UNCHANGED <<args, train, destdir, binVars, align, align_out>>

-----------------------------------------------------------------------------
(* The dictionary phase on its own: every training corpus within the        *)
(* bounds, every threshold and cap, and reused dictionary files.            *)

MaxThreshold == 2
MaxNwords == 1

Corpora == SeqUpTo(SeqUpTo(Vocab, MaxWords), MaxLines)

\* The target side of a parallel corpus: the same lines in the other language
Swap(w) == IF w = "a" THEN "b" ELSE "a"
Translate(file) == [i \in 1..Len(file) |-> [j \in 1..Len(file[i]) |-> Swap(file[i][j])]]

\* Dictionary files a user may pass with --srcdict / --tgtdict: a listing as
\* save writes it, one with a duplicate symbol, a malformed one
UserDicts ==
    { << <<"a", " ", "1", "2">>, <<"b", " ", "1">> >>,
      << <<"a", " ", "1">>, <<"a", " ", "1">> >>,
      << <<"a", " ", "1">>, <<"b">> >> }

\* The languages of a run: two languages, the same language on both sides,
\* and neither -s nor -t passed
LangPairs == {<<Given("en"), Given("de")>>, <<Given("en"), Given("en")>>, <<Unset, Unset>>}

\* The text files of a run, the source side's and the target side's; one file
\* when both sides have the same language
ParallelTexts(lp, s, t) ==
    [n \in {FormatLang(lp[1]), FormatLang(lp[2])} |-> IF n = FormatLang(lp[1]) THEN s ELSE t]

\* args.destdir after os.makedirs
EmptyDir == [p \in {} |-> <<>>]

NoRes == [nseq |-> 0, ntok |-> 0, nunk |-> 0]
NoAlign == [i |-> 0]

IdleBin ==
    /\ lang = Unset
    /\ dict = NewDictionary
    /\ input_file = <<>>
    /\ nread = 0
    /\ fed = <<>>
    /\ ds = EmptyBuilder
    /\ res = NoRes
    /\ index_file = Unset
    /\ got = <<>>

IdleAlign ==
    /\ align = NoAlign
    /\ freq_map = <<>>
    /\ align_out = Unset

InitDict ==
    /\ pc = "start"
    /\ \E c \in Corpora, reuse \in {Unset} \cup {Given(f) : f \in UserDicts},
          ts \in 0..MaxThreshold, ks \in (-1)..MaxNwords,
          tt \in {0, MaxThreshold}, mode \in {"binary", "raw"}, lp \in LangPairs :
        /\ reuse # Unset => c = << <<"a", "b">>, <<"b">> >>
        /\ lp[1] = lp[2] => ks = -1
        /\ train = ParallelTexts(lp, c, Translate(c))
        /\ args = [source_lang |-> lp[1], target_lang |-> lp[2],
                   thresholdsrc |-> ts, nwordssrc |-> ks,
                   thresholdtgt |-> tt, nwordstgt |-> IF tt = 0 THEN -1 ELSE MaxNwords,
                   srcdict |-> reuse,
                   tgtdict |-> IF ts = 0 THEN reuse ELSE Unset,
                   output_format |-> mode,
                   alignfile |-> IF mode = "raw" THEN Given(<<>>) ELSE Unset]
    /\ src_dict = NewDictionary
    /\ tgt_dict = NewDictionary
    /\ destdir = EmptyDir
    /\ IdleBin
    /\ IdleAlign

NextDict ==
    \/ ObtainSrc
    \/ SaveSrc
    \/ ObtainTgt
    \/ SaveTgt
    \/ \E l \in Langs : LoadForDataset(LangArg(l))
    \/ LoadForAlign

SpecDict == InitDict /\ [][NextDict]_vars

-----------------------------------------------------------------------------
(* The reference policy of finalize, stated on the corpus itself *)

Occurrences(ws, w) == Cardinality({i \in 1..Len(ws) : ws[i] = w})

FirstSeen(ws, w) == CHOOSE i \in 1..Len(ws) : ws[i] = w /\ \A j \in 1..(i - 1) : ws[j] # w

NonReservedWords(ws) == {ws[i] : i \in 1..Len(ws)} \ {ReservedSymbols[i] : i \in 1..NSpecial}

Survivors(ws, T) == {w \in NonReservedWords(ws) : Occurrences(ws, w) >= T}

\* v is listed before w: more frequent, or as frequent and seen first
ListedBefore(ws, v, w) ==
    \/ Occurrences(ws, v) > Occurrences(ws, w)
    \/ Occurrences(ws, v) = Occurrences(ws, w) /\ FirstSeen(ws, v) < FirstSeen(ws, w)

Rank(ws, T, w) == Cardinality({v \in Survivors(ws, T) : ListedBefore(ws, v, w)})

Retained(ws, T, K) == {w \in Survivors(ws, T) : K < 0 \/ Rank(ws, T, w) < K}

\* The threshold and the cap the command line gives for a language
GivenThreshold(l) == IF l = "src" THEN args.thresholdsrc ELSE args.thresholdtgt
GivenCap(l) == IF l = "src" THEN args.nwordssrc ELSE args.nwordstgt

\* The language's dictionary has just been saved
HoldsFinalized(l) == IF l = "src" THEN pc = "src_saved" ELSE pc = "saved"

MainDict(l) == IF l = "src" THEN src_dict ELSE tgt_dict

FollowsPolicy(f, ws, T, K) ==
    /\ SubSeq(f.symbols, 1, NSpecial) = ReservedSymbols
    /\ Len(f.symbols) = NSpecial + Cardinality(Retained(ws, T, K))
    /\ Len(f.count) = Len(f.symbols)
    /\ \A w \in Retained(ws, T, K) :
          /\ HasSymbol(f, w)
          /\ Index(f, w) = NSpecial + Rank(ws, T, w)
          /\ CountOf(f, w) = Occurrences(ws, w)
    /\ \A w \in NonReservedWords(ws) \ Retained(ws, T, K) : ~HasSymbol(f, w)

\* C4: the dictionary built from a training file and finalized by save keeps
\* the reserved symbols at 0..3, drops exactly the symbols whose count is below
\* the threshold, orders the rest by count descending with ties in first-seen
\* order, keeps the first nwords of them (all when nwords = -1), and numbers
\* them 4, 5, ... without gap or duplicate.
C4_FinalizeFollowsPolicy ==
    \A l \in Langs :
        (HoldsFinalized(l) /\ ReuseArg(l) = Unset) =>
            FollowsPolicy(MainDict(l), Flatten(TrainFile(LangArg(l))),
                          GivenThreshold(l), GivenCap(l))

\* A tie at count 2 under threshold 2 and cap 1: the first-seen symbol is kept
C4_Witness ==
    /\ pc = "src_saved"
    /\ args.srcdict = Unset
    /\ args.thresholdsrc = 2
    /\ args.nwordssrc = 1
    /\ TrainFile(args.source_lang) = << <<"b", "a">>, <<"a", "b">> >>
    /\ src_dict.symbols = ReservedSymbols \o <<"b">>
    /\ src_dict.count[NSpecial + 1] = 2

\* The dictionary that save wrote for a language, recomputed from the inputs
SavedDictionary(l) == Finalize(ObtainDictionary(l).d, ThresholdArg(l), NwordsArg(l))

SameMapping(loaded, saved) ==
    /\ SubSeq(loaded.symbols, 1, NSpecial) = ReservedSymbols
    /\ Len(loaded.symbols) = Len(saved.symbols)
    /\ \A i \in (NSpecial + 1)..Len(saved.symbols) :
          /\ HasSymbol(loaded, saved.symbols[i])
          /\ Index(loaded, saved.symbols[i]) = i - 1
          /\ CountOf(loaded, saved.symbols[i]) = saved.count[i]
    /\ \A w \in Vocab \cup {UnkWord, "</s>", "zzz"} : Index(loaded, w) = Index(saved, w)

\* The side whose save call wrote the dictionary file of a language: the
\* target's save comes last and replaces the source's when the languages are
\* the same
WriterOf(l) == IF DictPath(l) = DictPath(args.target_lang) THEN "tgt" ELSE "src"

\* C5: the dictionary make_binary_dataset and the alignment step load from a
\* dictionary file has every retained symbol at the same index with the same
\* count as the finalized dictionary whose save wrote that file, the reserved
\* symbols at 0..3 and no other symbol, so it encodes every word as the saved
\* dictionary does.
C5_LoadSaveRoundTrip ==
    /\ pc = "mbd_loaded" =>
          /\ SameMapping(dict, MainDict(WriterOf(lang)))
          /\ MainDict(WriterOf(lang)) = SavedDictionary(WriterOf(lang))
    /\ pc = "align_loaded" =>
          /\ SameMapping(src_dict, SavedDictionary(WriterOf(args.source_lang)))
          /\ SameMapping(tgt_dict, SavedDictionary("tgt"))

\* The target dictionary reloaded with two retained symbols, the source's
\* being another
C5_Witness ==
    /\ pc = "mbd_loaded"
    /\ lang = args.target_lang
    /\ args.source_lang # args.target_lang
    /\ DictLen(dict) = NSpecial + 2
    /\ dict # src_dict
    /\ dict = tgt_dict

-----------------------------------------------------------------------------
(* Tokenizer.tokenize and Tokenizer.binarize (spec.md 4.3) *)

\* The encoded sequence of a line: the lookups of its words, then the
\* end-of-sequence index; the dictionary is not extended
Tokenize(line, d) ==
    [j \in 1..(Len(line) + 1) |-> IF j <= Len(line) THEN Index(d, line[j]) ELSE EosIndex]

CountUnk(ids) == Cardinality({j \in 1..Len(ids) : ids[j] = UnkIndex})

\* The statistics after one more line
AddStats(r, ids) ==
    [nseq |-> r.nseq + 1, ntok |-> r.ntok + Len(ids), nunk |-> r.nunk + CountUnk(ids)]

-----------------------------------------------------------------------------
(* make_binary_dataset, lines 70-85, with a binarize that hands arbitrary   *)
(* tensors to the consumer closure; the finalize call and the reader.       *)

\* A consumer that leaves out empty tensors
ConsumerSkippingEmpty(b, tensor) == IF tensor = <<>> THEN b ELSE AddItem(b, tensor)

\* A consumer that hands over the tensor without its last element
ConsumerDroppingLast(b, tensor) ==
    AddItem(b, IF tensor = <<>> THEN tensor ELSE SubSeq(tensor, 1, Len(tensor) - 1))

\* lines 75-76: def consumer(tensor): ds.add_item(tensor)
Consumer(b, tensor) == AddItem(b, tensor)

TensorValues == {2, 258}
Tensors == SeqUpTo(TensorValues, MaxLen)

\* lines 70-73
OpenBuilder ==
    /\ pc = "mbd_loaded"
    /\ ds' = EmptyBuilder
    /\ pc' = "building"
    /\ UNCHANGED <<args, train, dictVars, lang, dict, input_file, nread, fed, res,
                   index_file, got, alignVars>>

\* binarize encodes one more sequence, counts it and calls consumer
ConsumerCall(tensor) ==
    /\ pc = "building"
    /\ Len(fed) < MaxItems
    /\ fed' = Append(fed, tensor)
    /\ ds' = Consumer(ds, tensor)
    /\ res' = AddStats(res, tensor)
    /\ UNCHANGED <<pc, args, train, dictVars, lang, dict, input_file, nread,
                   index_file, got, alignVars>>

\* lines 79-82: binarize returns and the statistics are formatted;
\* 100 * res['nunk'] / res['ntok'] raises ZeroDivisionError when ntok is 0
StopFeeding ==
    /\ pc = "building"
    /\ pc' = IF res.ntok = 0 THEN "error" ELSE "reported"
    /\ UNCHANGED <<args, train, dictVars, binVars, alignVars>>

\* lines 83-85
FinalizeDataset ==
    /\ pc = "reported"
    /\ index_file' = Given(IndexOf(ds))
    /\ ds' = [ds EXCEPT !.sealed = TRUE]
    /\ pc' = "sealed"
    /\ UNCHANGED <<args, train, dictVars, lang, dict, input_file, nread, fed, res,
                   got, alignVars>>

\* The reader, on the written artifacts
ReadItem(i) ==
    /\ pc = "sealed"
    /\ i < index_file[1].nitems
    /\ got' = Append(got, [i |-> i, item |-> ReaderGet(index_file[1], ds.out_file, i)])
    /\ pc' = "read"
    /\ UNCHANGED <<args, train, dictVars, lang, dict, input_file, nread, fed, ds, res,
                   index_file, alignVars>>

NoArgs ==
    [source_lang |-> Given("en"), target_lang |-> Given("de"),
     thresholdsrc |-> 0, nwordssrc |-> -1, thresholdtgt |-> 0, nwordstgt |-> -1,
     srcdict |-> Unset, tgtdict |-> Unset, output_format |-> "binary", alignfile |-> Unset]

InitBuilder ==
    /\ pc = "mbd_loaded"
    /\ args = NoArgs
    /\ train = ParallelTexts(<<args.source_lang, args.target_lang>>, <<>>, <<>>)
    /\ src_dict = NewDictionary
    /\ tgt_dict = NewDictionary
    /\ destdir = ParallelTexts(<<args.source_lang, args.target_lang>>, <<>>, <<>>)
    /\ lang = args.source_lang
    /\ dict = LoadDictionary(destdir[DictPath(lang)]).d
    /\ input_file = <<>>
    /\ nread = 0
    /\ fed = <<>>
    /\ ds = EmptyBuilder
    /\ res = NoRes
    /\ index_file = Unset
    /\ got = <<>>
    /\ IdleAlign

NextBuilder ==
    \/ OpenBuilder
    \/ \E t \in Tensors : ConsumerCall(t)
    \/ StopFeeding
    \/ FinalizeDataset
    \/ \E i \in 0..MaxItems : ReadItem(i)

SpecBuilder == InitBuilder /\ [][NextBuilder]_vars

Offsets == ds.data_offsets

\* C1: whatever has been appended, empty sequences included, the offsets
\* table has one entry more than there are items, starts at 0, advances by
\* each item's length, and ends at the total element count, which is the sum
\* of the item lengths; an empty sequence is an item of its own that leaves
\* the running offset where it was.
C1_OffsetsArePrefixSums ==
    pc \in {"building", "reported", "sealed", "read"} =>
        /\ Len(Offsets) = Len(fed) + 1
        /\ Offsets[1] = 0
        /\ \A i \in 1..Len(fed) :
              /\ Offsets[i + 1] - Offsets[i] = Len(fed[i])
              /\ fed[i] = <<>> => Offsets[i + 1] = Offsets[i]
        /\ Offsets[Len(Offsets)] = SumSeq([i \in 1..Len(fed) |-> Len(fed[i])])
        /\ Offsets[Len(Offsets)] * ElementSize = Len(ds.out_file)
        /\ pc \in {"sealed", "read"} =>
              /\ index_file[1].nitems = Len(fed)
              /\ index_file[1].nelements = Offsets[Len(Offsets)]
              /\ index_file[1].offsets = Offsets

\* An empty sequence appended between two non-empty ones
C1_Witness ==
    /\ pc = "building"
    /\ Len(fed) = 3
    /\ fed[1] # <<>>
    /\ fed[2] = <<>>
    /\ fed[3] # <<>>
    /\ Offsets[3] = Offsets[2]
    /\ Offsets[4] > Offsets[3]

\* The items as the reader would slice them out of the data written so far
StoredItem(i) == ReaderGet(IndexOf(ds), ds.out_file, i)

\* C2: the reader built from the index and the data blob returns, for every
\* index, the sequence appended at that position, element for element; while
\* the dataset is being built no append changes an item appended before.
C2_ReaderReturnsAppended ==
    /\ pc \in {"building", "reported", "sealed", "read"} =>
          \A i \in 0..(Len(fed) - 1) : StoredItem(i) = fed[i + 1]
    /\ pc \in {"sealed", "read"} =>
          \A i \in 0..(Len(fed) - 1) : ReaderGet(index_file[1], ds.out_file, i) = fed[i + 1]
    /\ \A k \in 1..Len(got) : got[k].item = fed[got[k].i + 1]

\* The second of three items read back, with an element wider than one byte
C2_Witness ==
    /\ pc = "read"
    /\ Len(fed) = 3
    /\ got = << [i |-> 1, item |-> <<258, 2>>] >>
    /\ fed[1] = <<2>>
    /\ fed[3] = <<>>

-----------------------------------------------------------------------------
(* make_binary_dataset, lines 66-85, on a text file *)

\* One iteration of binarize's loop over the file: the line is encoded and
\* handed to the consumer of lines 75-76
BinarizeLine ==
    /\ pc = "building"
    /\ nread < Len(input_file)
    /\ LET ids == Tokenize(input_file[nread + 1], dict)
       IN /\ fed' = Append(fed, ids)
          /\ ds' = Consumer(ds, ids)
          /\ res' = AddStats(res, ids)
    /\ nread' = nread + 1
    /\ UNCHANGED <<pc, args, train, dictVars, lang, dict, input_file, index_file, got,
                   alignVars>>

\* lines 79-82: binarize returns and the statistics are formatted;
\* 100 * res['nunk'] / res['ntok'] raises ZeroDivisionError when ntok is 0
ReportStats ==
    /\ pc = "building"
    /\ nread = Len(input_file)
    /\ pc' = IF res.ntok = 0 THEN "error" ELSE "reported"
    /\ UNCHANGED <<args, train, dictVars, binVars, alignVars>>

\* The dictionary files lines 52-64 leave for a parallel training corpus
\* under one threshold and one cap: each is built from the text file of its
\* language, which is one file for both sides when the languages are the same
SavedPair(lp, c, T, K) ==
    [n \in {FormatLang(lp[1]), FormatLang(lp[2])} |->
        SaveLines(BuildDictionary(ParallelTexts(lp, c, Translate(c))[n]), T, K)]

\* Training corpus, threshold and cap of a run: both words kept; one word
\* dropped by the threshold; both cut by the cap
BinRuns ==
    { [c |-> << <<"a", "b">> >>, T |-> 0, K |-> -1],
      [c |-> << <<"a", "b">>, <<"b">> >>, T |-> 2, K |-> -1],
      [c |-> << <<"a", "b">> >>, T |-> 0, K |-> 0] }

\* Two languages, and the same language on both sides
BinLangPairs == {<<Given("en"), Given("de")>>, <<Given("en"), Given("en")>>}

\* Lines of the file to binarize: the vocabulary, and the unknown symbol's
\* own string as a word of the text
BinLines == SeqUpTo(Vocab, MaxWords) \cup {<<UnkWord>>, <<"a", UnkWord>>}
BinFiles == SeqUpTo(BinLines, MaxLines)

InitBin ==
    /\ pc = "saved"
    /\ \E lp \in BinLangPairs, r \in BinRuns :
        /\ args = [NoArgs EXCEPT !.source_lang = lp[1], !.target_lang = lp[2],
                                 !.thresholdsrc = r.T, !.thresholdtgt = r.T,
                                 !.nwordssrc = r.K, !.nwordstgt = r.K]
        /\ train = ParallelTexts(lp, r.c, Translate(r.c))
        /\ destdir = SavedPair(lp, r.c, r.T, r.K)
        /\ src_dict = Finalize(BuildDictionary(train[FormatLang(lp[1])]), r.T, r.K)
        /\ tgt_dict = Finalize(BuildDictionary(train[FormatLang(lp[2])]), r.T, r.K)
    /\ lang = Unset
    /\ dict = NewDictionary
    /\ input_file \in BinFiles
    /\ nread = 0
    /\ fed = <<>>
    /\ ds = EmptyBuilder
    /\ res = NoRes
    /\ index_file = Unset
    /\ got = <<>>
    /\ IdleAlign

NextBin ==
    \/ \E l \in Langs : LoadForDataset(LangArg(l))
    \/ OpenBuilder
    \/ BinarizeLine
    \/ ReportStats
    \/ FinalizeDataset
    \/ \E i \in 0..MaxLines : ReadItem(i)

SpecBin == InitBin /\ [][NextBin]_vars


\* make_binary_dataset has opened its builder
Binarizing == pc \in {"building", "reported", "sealed", "read", "error"}

\* binarize has returned
BinarizeReturned == pc \in {"reported", "sealed", "read", "error"}

\* C3: the consumer is invoked once per line, in file order; the sequence
\* stored for line i has one element more than the line has words, the
\* lookups of its words in order and then the end-of-sequence index; the
\* sentence count returned is the number of lines; the dictionary is the one
\* that was loaded, with no symbol added.
C3_OneItemPerLine ==
    Binarizing =>
        /\ Len(ds.data_offsets) - 1 = nread
        /\ \A i \in 1..nread :
              LET item == StoredItem(i - 1)
                  line == input_file[i]
              IN /\ Len(item) = Len(line) + 1
                 /\ \A j \in 1..Len(line) : item[j] = Index(dict, line[j])
                 /\ item[Len(line) + 1] = EosIndex
        /\ res.nseq = nread
        /\ BinarizeReturned => res.nseq = Len(input_file)
        /\ dict = LoadDictionary(destdir[DictPath(lang)]).d

\* An empty line and a line of two words, both stored
C3_Witness ==
    /\ pc = "sealed"
    /\ lang = args.source_lang
    /\ input_file = << <<>>, <<"b", "a">> >>
    /\ HasSymbol(dict, "a")
    /\ HasSymbol(dict, "b")
    /\ index_file[1].nitems = 2
    /\ StoredItem(0) = <<EosIndex>>
    /\ StoredItem(1) = <<Index(dict, "b"), Index(dict, "a"), EosIndex>>

\* The dictionary saved for the language being binarized
LanguageDict == LoadDictionary(destdir[DictPath(lang)]).d

\* The word positions of the lines read so far
WordPositions == {p \in (1..nread) \X (1..(MaxWords + 1)) : p[2] <= Len(input_file[p[1]])}

WordAt(p) == input_file[p[1]][p[2]]

\* C6 as claimed: the unknown count is the number of elements whose word is
\* absent from the dictionary, and no word of the dictionary adds to it.
C6_UnknownCountIsAbsentWords ==
    Binarizing =>
        res.nunk = Cardinality({p \in WordPositions : ~HasSymbol(LanguageDict, WordAt(p))})

\* C6 as amended: an absent word is stored as the unknown index and
\* binarization goes on to the end of the file; the unknown count is the
\* number of elements that are the unknown index, which are the occurrences
\* of absent words and those of the unknown symbol's own string; no other
\* word of the dictionary adds to it.
C6_UnknownCountIsUnknownElements ==
    Binarizing =>
        /\ \A p \in WordPositions :
              /\ ~HasSymbol(LanguageDict, WordAt(p)) => StoredItem(p[1] - 1)[p[2]] = UnkIndex
              /\ (HasSymbol(LanguageDict, WordAt(p)) /\ WordAt(p) # UnkWord)
                    => StoredItem(p[1] - 1)[p[2]] # UnkIndex
        /\ res.nunk = Cardinality({p \in WordPositions :
                                      \/ ~HasSymbol(LanguageDict, WordAt(p))
                                      \/ WordAt(p) = UnkWord})
        /\ res.nunk <= res.ntok
        /\ pc = "error" => nread = Len(input_file)

\* A word dropped by the threshold and the unknown symbol's own string, in
\* one file: both are counted
C6_Witness ==
    /\ pc = "reported"
    /\ lang = args.source_lang
    /\ ~HasSymbol(dict, "a")
    /\ HasSymbol(dict, "b")
    /\ input_file = << <<"a", "b">>, <<"a", UnkWord>> >>
    /\ res.nunk = 3

\* C10: once binarize has returned, the run goes on to the builder's
\* finalize, also for a file of zero lines, for which the index is written
\* with item count 0.
C10_FinalizeAfterBinarize ==
    BinarizeReturned =>
        /\ pc # "error"
        /\ pc \in {"sealed", "read"} =>
              /\ index_file # Unset
              /\ index_file[1].nitems = Len(input_file)

-----------------------------------------------------------------------------
(* main(), lines 107-143: the alignment step.  A line of the alignment    *)
(* file is the sequence of its blank-separated items, each the sequence of *)
(* the parts the dash splits it into, each part the sequence of its        *)
(* characters' code points.                                                *)

Max3(x, y, z) == LET m == IF x >= y THEN x ELSE y IN IF m >= z THEN m ELSE z

\* line 116: zip_longest goes on to the end of the longest file
LoopLength(na, ns, nt) == Max3(na, ns, nt)

\* line 116: the record of a file at iteration i, None past its end
RecordAt(file, i) == IF i <= Len(file) THEN Given(file[i]) ELSE Unset

\* lines 117-118: Tokenizer.tokenize(line, dict, add_if_not_exist=False).
\* For the None that stands for a missing line the call is taken to raise,
\* after spec.md 4.4 (a shorter file is a fatal error); the tokenizer's own
\* description is of lines only
TokenizeRecord(r, d) ==
    IF r = Unset THEN [ok |-> FALSE, ids |-> <<>>]
    ELSE [ok |-> TRUE, ids |-> Tokenize(r[1], d)]

\* The characters of a position are code points.  int() is that of CPython
\* 3.11: it reads the decimal digits of every script, each script's digits
\* being ten consecutive code points from its zero (Unicode 14), and it
\* refuses a text of more than 4300 digits.
DigitZeros ==
    {48, 1632, 1776, 1984, 2406, 2534, 2662, 2790, 2918, 3046, 3174, 3302, 3430,
     3558, 3664, 3792, 3872, 4160, 4240, 6112, 6160, 6470, 6608, 6784, 6800, 6992,
     7088, 7232, 7248, 42528, 43216, 43264, 43472, 43504, 43600, 44016, 65296,
     66720, 68912, 69734, 69872, 69942, 70096, 70384, 70736, 70864, 71248, 71360,
     71472, 71904, 72016, 72784, 73040, 73120, 92768, 92864, 93008, 120782,
     120792, 120802, 120812, 120822, 123200, 123632, 125264, 130032}

\* The blanks int() strips from both ends of its argument
IntBlanks ==
    {9, 10, 11, 12, 13, 32, 133, 160, 5760, 8232, 8233, 8239, 8287, 12288}
        \cup (8192..8202)

PlusSign == 43
MinusSign == 45
Underscore == 95

\* sys.int_info.default_max_str_digits
MaxStrDigits == 4300

IsDecimal(c) == \E z \in DigitZeros : c >= z /\ c <= z + 9

DecimalValue(c) == c - (CHOOSE z \in DigitZeros : c >= z /\ c <= z + 9)

\* The digits of a text as numbers, underscores left out
DigitsOf(cs) ==
    LET kept == SelectSeq(cs, IsDecimal)
    IN [i \in 1..Len(kept) |-> DecimalValue(kept[i])]

\* Without leading zeros; zero is the single digit 0
Normalized(digits) ==
    IF \A i \in 1..Len(digits) : digits[i] = 0 THEN <<0>>
    ELSE LET first == CHOOSE i \in 1..Len(digits) :
                          digits[i] # 0 /\ \A j \in 1..(i - 1) : digits[j] = 0
         IN SubSeq(digits, first, Len(digits))

RECURSIVE StripLeft(_)
StripLeft(text) ==
    IF text # <<>> /\ Head(text) \in IntBlanks THEN StripLeft(Tail(text)) ELSE text

RECURSIVE StripRight(_)
StripRight(text) ==
    IF text # <<>> /\ text[Len(text)] \in IntBlanks
    THEN StripRight(SubSeq(text, 1, Len(text) - 1))
    ELSE text

\* The text of an integer without the blanks around it
Stripped(text) == StripRight(StripLeft(text))

\* The text of an integer without its sign
Unsigned(text) ==
    IF text # <<>> /\ Head(text) \in {PlusSign, MinusSign} THEN Tail(text) ELSE text

\* Decimal digits, with single underscores allowed between two digits, and
\* no more digits than the interpreter converts
IsNumeral(cs) ==
    /\ cs # <<>>
    /\ \A i \in 1..Len(cs) : IsDecimal(cs[i]) \/ cs[i] = Underscore
    /\ IsDecimal(cs[1])
    /\ IsDecimal(cs[Len(cs)])
    /\ \A i \in 1..(Len(cs) - 1) : ~(cs[i] = Underscore /\ cs[i + 1] = Underscore)
    /\ Len(DigitsOf(cs)) <= MaxStrDigits

\* int(sai): the integer, or ValueError.  The integer is unbounded: it is
\* its sign and the decimal digits of its magnitude, most significant first
PositionOf(text) ==
    LET t == Stripped(text)
    IN IF ~IsNumeral(Unsigned(t)) THEN [ok |-> FALSE, neg |-> FALSE, mag |-> <<0>>]
       ELSE LET mag == Normalized(DigitsOf(Unsigned(t)))
            IN [ok |-> TRUE, neg |-> Head(t) = MinusSign /\ mag # <<0>>, mag |-> mag]

\* The decimal digits of a natural number, most significant first
RECURSIVE NatDigits(_)
NatDigits(n) == IF n < 10 THEN <<n>> ELSE NatDigits(n \div 10) \o <<n % 10>>

\* The order of two magnitudes given by their digits without leading zeros
MagLess(x, y) ==
    \/ Len(x) < Len(y)
    \/ /\ Len(x) = Len(y)
       /\ \E i \in 1..Len(x) : x[i] < y[i] /\ \A j \in 1..(i - 1) : x[j] = y[j]

\* The number of a magnitude that is no larger than the length of a sequence
RECURSIVE MagValue(_, _)
MagValue(digits, acc) ==
    IF digits = <<>> THEN acc ELSE MagValue(Tail(digits), 10 * acc + Head(digits))

\* si[k]: the element at k when 0 <= k < len, the element at len + k when
\* -len <= k < 0, IndexError for every other k, however large
ElementAt(ids, k) ==
    LET len == NatDigits(Len(ids))
    IN IF ~k.neg /\ MagLess(k.mag, len)
       THEN [ok |-> TRUE, v |-> ids[MagValue(k.mag, 0) + 1]]
       ELSE IF k.neg /\ ~MagLess(len, k.mag)
       THEN [ok |-> TRUE, v |-> ids[Len(ids) - MagValue(k.mag, 0) + 1]]
       ELSE [ok |-> FALSE, v |-> 0]

\* lines 120-122: the item unpacked into its two parts and resolved;
\* an item that is not two parts cannot be unpacked
ResolveItem(item, si, ti) ==
    IF Len(item) # 2 THEN [ok |-> FALSE, srcidx |-> 0, tgtidx |-> 0]
    ELSE LET sai == PositionOf(item[1])
             tai == PositionOf(item[2])
         IN IF ~sai.ok \/ ~tai.ok THEN [ok |-> FALSE, srcidx |-> 0, tgtidx |-> 0]
            ELSE LET s == ElementAt(si, sai)
                     t == ElementAt(ti, tai)
                 IN [ok |-> s.ok /\ t.ok, srcidx |-> s.v, tgtidx |-> t.v]

\* line 123
Countable(srcidx, tgtidx) == srcidx # UnkIndex /\ tgtidx # UnkIndex

\* lines 124-127
AssertsHold(srcidx, tgtidx) ==
    /\ srcidx # PadIndex
    /\ srcidx # EosIndex
    /\ tgtidx # PadIndex
    /\ tgtidx # EosIndex

\* An insertion-ordered mapping is the sequence of its entries [k, v]
HasKey(m, k) == \E i \in 1..Len(m) : m[i].k = k
KeyPos(m, k) == CHOOSE i \in 1..Len(m) : m[i].k = k
Lookup(m, k) == m[KeyPos(m, k)].v

\* lines 129-134
Record(fm, srcidx, tgtidx) ==
    LET fm1 == IF HasKey(fm, srcidx) THEN fm ELSE Append(fm, [k |-> srcidx, v |-> <<>>])
        pos == KeyPos(fm1, srcidx)
        inner == fm1[pos].v
    IN IF HasKey(inner, tgtidx)
       THEN [fm1 EXCEPT ![pos].v[KeyPos(inner, tgtidx)].v = @ + 1]
       ELSE [fm1 EXCEPT ![pos].v = Append(@, [k |-> tgtidx, v |-> 1])]

\* lines 120-134: the pairs of one line, in order, until one raises
RECURSIVE ProcessPairs(_, _, _, _)
ProcessPairs(ai, si, ti, fm) ==
    IF ai = <<>> THEN [ok |-> TRUE, fm |-> fm]
    ELSE LET r == ResolveItem(Head(ai), si, ti)
         IN IF ~r.ok THEN [ok |-> FALSE, fm |-> fm]
            ELSE IF ~Countable(r.srcidx, r.tgtidx) THEN ProcessPairs(Tail(ai), si, ti, fm)
            ELSE IF ~AssertsHold(r.srcidx, r.tgtidx) THEN [ok |-> FALSE, fm |-> fm]
            ELSE ProcessPairs(Tail(ai), si, ti, Record(fm, r.srcidx, r.tgtidx))

\* max as the last of the largest
RECURSIVE LastMax(_, _)
LastMax(inner, best) ==
    IF inner = <<>> THEN best
    ELSE LastMax(Tail(inner), IF Head(inner).v >= best.v THEN Head(inner) ELSE best)

BestTargetOfLastMax(inner) == LastMax(Tail(inner), Head(inner)).k

\* max(mapping, key=mapping.get): the first key, in iteration order, whose
\* value is the largest
RECURSIVE FirstMax(_, _)
FirstMax(inner, best) ==
    IF inner = <<>> THEN best
    ELSE FirstMax(Tail(inner), IF Head(inner).v > best.v THEN Head(inner) ELSE best)

\* line 138
BestTarget(inner) == FirstMax(Tail(inner), Head(inner)).k

AlignFile == args.alignfile[1]

\* lines 108-109
SrcFile == TrainFile(args.source_lang)
TgtFile == TrainFile(args.target_lang)

Iterations == LoopLength(Len(AlignFile), Len(SrcFile), Len(TgtFile))

\* lines 116-134: one iteration of the loop over the three files
AlignLine ==
    /\ pc = "align_loaded"
    /\ align.i < Iterations
    /\ LET i == align.i + 1
           a == RecordAt(AlignFile, i)
           si == TokenizeRecord(RecordAt(SrcFile, i), src_dict)
           ti == TokenizeRecord(RecordAt(TgtFile, i), tgt_dict)
       IN IF ~si.ok \/ ~ti.ok \/ a = Unset
          THEN /\ pc' = "error"
               /\ freq_map' = freq_map
          ELSE LET r == ProcessPairs(a[1], si.ids, ti.ids, freq_map)
               IN /\ pc' = IF r.ok THEN pc ELSE "error"
                  /\ freq_map' = r.fm
    /\ align' = [align EXCEPT !.i = @ + 1]
    /\ UNCHANGED <<args, train, dictVars, binVars, align_out>>

\* lines 136-143: the best target of every source index, written out
AlignFinish ==
    /\ pc = "align_loaded"
    /\ align.i = Iterations
    /\ align_out' = Given([n \in 1..Len(freq_map) |->
                             <<SymbolAt(src_dict, freq_map[n].k), " ",
                               SymbolAt(tgt_dict, BestTarget(freq_map[n].v))>>])
    /\ pc' = "align_done"
    /\ UNCHANGED <<args, train, dictVars, binVars, align, freq_map>>

-----------------------------------------------------------------------------
(* The alignment step on a parallel training text whose dictionaries were  *)
(* built from it and saved, with every alignment file within the bounds    *)
(* and with files of unequal length.                                       *)

MaxPairs == 3       \* alignment items in the whole alignment file

SrcLineAt(i) == IF i % 2 = 1 THEN <<"a", "b">> ELSE <<"b">>
TgtLineAt(i) == IF i % 2 = 1 THEN <<"a">> ELSE <<"b", "a">>

SrcText(n) == [i \in 1..n |-> SrcLineAt(i)]
TgtText(n) == [i \in 1..n |-> TgtLineAt(i)]

\* The characters of the alignment files: the digits 0 and 1, and the
\* Arabic-Indic digit one
Chr0 == 48
Chr1 == 49
ChrArabicIndic1 == 1633

\* Items "i-j" over the first two positions
AlignPositions == {<<Chr0>>, <<Chr1>>}
AlignItems == AlignPositions \X AlignPositions

\* A position of n digits 1
LongPosition(n) == [i \in 1..n |-> Chr1]

\* Items written otherwise: "01-1", "10-0", "+1-0", the source position 1 as
\* an Arabic-Indic digit, "0" without a dash, and source positions of as many
\* digits as int() converts and of one digit more
OtherItems ==
    { << <<Chr0, Chr1>>, <<Chr1>> >>, << <<Chr1, Chr0>>, <<Chr0>> >>,
      << <<PlusSign, Chr1>>, <<Chr0>> >>, << <<ChrArabicIndic1>>, <<Chr0>> >>,
      << <<Chr0>> >>,
      << LongPosition(MaxStrDigits), <<Chr0>> >>,
      << LongPosition(MaxStrDigits + 1), <<Chr0>> >> }

\* The alignment files of exactly k lines with at most n items in all
RECURSIVE AlignFilesOf(_, _)
AlignFilesOf(k, n) ==
    IF k = 0 THEN {<<>>}
    ELSE UNION { {<<line>> \o rest : rest \in AlignFilesOf(k - 1, n - Len(line))} :
                 line \in SeqUpTo(AlignItems, n) }

\* Every file of items over the first two positions, and the files of one
\* line whose first item is written otherwise
AlignFiles ==
    UNION {AlignFilesOf(k, MaxPairs) : k \in 0..MaxLines}
        \cup {<< <<o>> \o rest >> : o \in OtherItems, rest \in SeqUpTo(AlignItems, 1)}

\* The lengths of the two text files: equal, or one of them a line short
TextLengths ==
    {<<n, n>> : n \in 0..MaxLines}
        \cup {<<n - 1, n>> : n \in 1..MaxLines}
        \cup {<<n, n - 1>> : n \in 1..MaxLines}

InitAlign ==
    /\ pc = "saved"
    /\ \E f \in AlignFiles, len \in TextLengths, T \in {0, 2}, lp \in BinLangPairs :
        /\ lp[1] = lp[2] => len[1] = len[2]
        /\ args = [source_lang |-> lp[1], target_lang |-> lp[2],
                   thresholdsrc |-> T, nwordssrc |-> -1, thresholdtgt |-> T, nwordstgt |-> -1,
                   srcdict |-> Unset, tgtdict |-> Unset, output_format |-> "raw",
                   alignfile |-> Given(f)]
        /\ train = ParallelTexts(lp, SrcText(len[1]), TgtText(len[2]))
        /\ src_dict = Finalize(BuildDictionary(train[FormatLang(lp[1])]), T, -1)
        /\ tgt_dict = Finalize(BuildDictionary(train[FormatLang(lp[2])]), T, -1)
        /\ destdir = [n \in DOMAIN train |-> SaveLines(BuildDictionary(train[n]), T, -1)]
    /\ IdleBin
    /\ IdleAlign

NextAlign ==
    \/ LoadForAlign
    \/ AlignLine
    \/ AlignFinish

SpecAlign == InitAlign /\ [][NextAlign]_vars

-----------------------------------------------------------------------------
(* The alignment step's claims, stated on the files themselves *)

\* The lines the loop has gone through without raising
LinesDone == IF pc = "error" THEN align.i - 1 ELSE align.i

\* The indices item n of line i resolves to
ResolvedSrc(i, n) ==
    ElementAt(Tokenize(SrcFile[i], src_dict), PositionOf(AlignFile[i][n][1])).v
ResolvedTgt(i, n) ==
    ElementAt(Tokenize(TgtFile[i], tgt_dict), PositionOf(AlignFile[i][n][2])).v

ItemsDone == {p \in (1..LinesDone) \X (1..MaxPairs) : p[2] <= Len(AlignFile[p[1]])}

InAlignment == pc \in {"align_loaded", "align_done", "error"}

\* C7: no item whose source or target index is the pad or the
\* end-of-sequence index gets past the loop, whatever its other side
\* resolves to: aggregation aborts on it and the item is never skipped.
C7_PadEosAlwaysAborts ==
    InAlignment =>
        \A p \in ItemsDone :
            /\ ResolvedSrc(p[1], p[2]) \notin {PadIndex, EosIndex}
            /\ ResolvedTgt(p[1], p[2]) \notin {PadIndex, EosIndex}

FileLengths == <<Len(AlignFile), Len(SrcFile), Len(TgtFile)>>

\* C8, as far as the source settles it: when the alignment file has fewer
\* lines than a text file, the run never completes and writes no alignment
\* output; it does not get past the first iteration without an alignment
\* record, where a.split() is called on None (line 119).
C8_MissingAlignmentRecordIsFatal ==
    (InAlignment /\ FileLengths[1] < Max3(0, FileLengths[2], FileLengths[3])) =>
        /\ pc # "align_done"
        /\ align_out = Unset
        /\ (align.i > FileLengths[1] => pc = "error")

\* The pairs of indices that the items of the lines gone through resolve to,
\* in file order, without those with the unknown index on either side
ResolvedLine(i) ==
    [n \in 1..Len(AlignFile[i]) |-> <<ResolvedSrc(i, n), ResolvedTgt(i, n)>>]

IsKnownPair(p) == p[1] # UnkIndex /\ p[2] # UnkIndex

KnownPairs == SelectSeq(Flatten([i \in 1..LinesDone |-> ResolvedLine(i)]), IsKnownPair)

TimesPaired(kp, s, t) == Cardinality({n \in 1..Len(kp) : kp[n] = <<s, t>>})

FirstPaired(kp, s, t) ==
    CHOOSE n \in 1..Len(kp) :
        kp[n] = <<s, t>> /\ \A m \in 1..(n - 1) : kp[m] # <<s, t>>

FirstAsSource(kp, s) ==
    CHOOSE n \in 1..Len(kp) :
        kp[n][1] = s /\ \A m \in 1..(n - 1) : kp[m][1] # s

PairedSources(kp) == {kp[n][1] : n \in 1..Len(kp)}
TargetsOf(kp, s) == {kp[n][2] : n \in {m \in 1..Len(kp) : kp[m][1] = s}}

\* The n-th source index in the order of first appearance
NthSource(kp, n) ==
    CHOOSE s \in PairedSources(kp) :
        Cardinality({r \in PairedSources(kp) :
                        FirstAsSource(kp, r) < FirstAsSource(kp, s)}) = n - 1

\* The most frequent target of s, the first recorded among the most frequent
ExpectedTarget(kp, s) ==
    CHOOSE t \in TargetsOf(kp, s) :
        \A u \in TargetsOf(kp, s) \ {t} :
            \/ TimesPaired(kp, s, t) > TimesPaired(kp, s, u)
            \/ /\ TimesPaired(kp, s, t) = TimesPaired(kp, s, u)
               /\ FirstPaired(kp, s, t) < FirstPaired(kp, s, u)

FreqOf(s, t) ==
    IF HasKey(freq_map, s) /\ HasKey(Lookup(freq_map, s), t)
    THEN Lookup(Lookup(freq_map, s), t)
    ELSE 0

Indices == 0..(NSpecial + Cardinality(Vocab) - 1)

\* C9: when aggregation completes, freq[s][t] is the number of items that
\* resolve to (s, t) with neither index unknown; the output has one line for
\* each source index of freq and no other, in the order the source indices
\* were first recorded; the target of each line is the most frequent one for
\* its source and, among equally frequent ones, the first recorded.
C9_BestAlignmentIsFirstMaximum ==
    pc = "align_done" =>
      LET kp == KnownPairs IN
        /\ \A s \in Indices, t \in Indices : FreqOf(s, t) = TimesPaired(kp, s, t)
        /\ {freq_map[n].k : n \in 1..Len(freq_map)} = PairedSources(kp)
        /\ Len(freq_map) = Cardinality(PairedSources(kp))
        /\ Len(align_out[1]) = Cardinality(PairedSources(kp))
        /\ \A n \in 1..Len(align_out[1]) :
              /\ freq_map[n].k = NthSource(kp, n)
              /\ \A u \in TargetsOf(kp, NthSource(kp, n)) :
                    FreqOf(NthSource(kp, n), ExpectedTarget(kp, NthSource(kp, n)))
                        >= FreqOf(NthSource(kp, n), u)
              /\ align_out[1][n] = <<SymbolAt(src_dict, NthSource(kp, n)), " ",
                                     SymbolAt(tgt_dict, ExpectedTarget(kp, NthSource(kp, n)))>>

\* Two targets recorded once each for one source, the larger index first:
\* the first recorded is emitted
C9_Witness ==
    /\ pc = "align_done"
    /\ Len(freq_map) = 1
    /\ Len(freq_map[1].v) = 2
    /\ freq_map[1].v[1].v = freq_map[1].v[2].v
    /\ freq_map[1].v[1].k > freq_map[1].v[2].k
    /\ align_out[1] = << <<SymbolAt(src_dict, freq_map[1].k), " ",
                           SymbolAt(tgt_dict, freq_map[1].v[1].k)>> >>

====
